---- MODULE Spec2Model ----
(***************************************************************************)
(* A model of the SMT-LIB benchmark scrambler (src/scrambler.cpp): the      *)
(* pseudo-random number generator, the two symbol registries, the command  *)
(* buffer of term trees, the shuffling / ranking / sorting passes, the      *)
(* printers and the unsat-core filter.                                      *)
(*                                                                         *)
(* Conventions.  C++ vectors are sequences; a C++ index i (0-based) is the  *)
(* TLA+ index i+1, and the definitions keep the 0-based start / end / i of  *)
(* the source.  A std::string is a TLA+ string (Len, SubSeq and \o work on  *)
(* strings in TLC).  A 64-bit unsigned integer is a tuple of 8 bytes, least *)
(* significant first, because the generator's products exceed the range of  *)
(* the model checker's integers.                                            *)
(***************************************************************************)
EXTENDS Integers, Sequences, FiniteSets, TLC

(***************************************************************************)
(* Bounds of the model.                                                     *)
(***************************************************************************)
\* the largest number of commands the parser appends in one run
MaxCmds == 3
\* the largest number of operations in one run of SpecRegistry and SpecLogic
MaxOps == 4
\* the longest vector handed to the shuffles and sorts in SpecFunctions
MaxVec == 3
\* the largest rank value read from a rank file (ranks are 0..MaxRank)
MaxRank == 2
\* the most next_rand_int calls made in a row on one generator
MaxDraws == 3

(***************************************************************************)
(* Generic helpers.                                                         *)
(***************************************************************************)
\* v with the elements at TLA+ positions p and q exchanged (std::swap)
Swap(v, p, q) ==
    [k \in 1..Len(v) |-> IF k = p THEN v[q] ELSE IF k = q THEN v[p] ELSE v[k]]

\* the number of positions of sequence s that hold x
Count(s, x) == Cardinality({k \in 1..Len(s) : s[k] = x})

\* s and t hold the same elements with the same multiplicities
IsPermutation(s, t) ==
    /\ Len(s) = Len(t)
    /\ \A k \in 1..Len(s) : Count(s, s[k]) = Count(t, s[k])

\* the permutations of 1..n, as sequences
Perms(n) == {p \in [1..n -> 1..n] : \A i, j \in 1..n : p[i] = p[j] => i = j}

(***************************************************************************)
(* The pseudo-random number generator (64-bit unsigned arithmetic on byte   *)
(* tuples).                                                                 *)
(***************************************************************************)
\* the 64-bit value of a small natural number
U64(k) ==
    <<k % 256, (k \div 256) % 256, (k \div 65536) % 256, (k \div 16777216) % 256,
      0, 0, 0, 0>>

\* const uint64_t a = 25214903917ULL = 0x5DEECE66D
a == <<109, 230, 236, 222, 5, 0, 0, 0>>
\* const uint64_t c = 11U
c == 11
\* const uint64_t mask = ~(2ULL << 48): every bit but bit 49
mask == <<255, 255, 255, 255, 255, 255, 253, 255>>

RECURSIVE BitAnd(_, _)
\* x & y on naturals
BitAnd(x, y) ==
    IF x = 0 \/ y = 0 THEN 0
    ELSE (x % 2) * (y % 2) + 2 * BitAnd(x \div 2, y \div 2)

RECURSIVE ColumnSum(_, _, _, _)
\* sum over i = 1..k of x[i] * y[col + 1 - i]: column col of the product x * y
ColumnSum(x, y, col, k) ==
    IF k = 0 THEN 0 ELSE x[k] * y[col + 1 - k] + ColumnSum(x, y, col, k - 1)

RECURSIVE Carry(_, _, _)
\* the bytes of the columns cols from position k on, with carry in, mod 2^64
Carry(cols, k, carry) ==
    IF k > 8 THEN <<>>
    ELSE LET t == cols[k] + carry
         IN  <<t % 256>> \o Carry(cols, k + 1, t \div 256)

\* (x * y) mod 2^64
Mul64(x, y) == Carry([k \in 1..8 |-> ColumnSum(x, y, k, k)], 1, 0)

\* (x + k) mod 2^64, for a small natural k
Add64(x, k) == Carry(x, 1, k)

RECURSIVE Borrow(_, _, _)
\* the bytes of x from position k on less the borrow b, mod 2^64
Borrow(x, k, b) ==
    IF k > 8 THEN <<>>
    ELSE LET t == x[k] - b
         IN  <<t % 256>> \o Borrow(x, k + 1, IF t < 0 THEN 1 ELSE 0)

\* (x - k) mod 2^64, for a small natural k
Sub64(x, k) == Borrow(x, 1, k)

\* x & y
And64(x, y) == [k \in 1..8 |-> BitAnd(x[k], y[k])]

RECURSIVE ModHigh(_, _, _, _)
\* (the number held by bytes 3..k of x, i.e. x >> 16) modulo m
ModHigh(x, k, m, acc) ==
    IF k < 3 THEN acc ELSE ModHigh(x, k - 1, m, (acc * 256 + x[k]) % m)

\* void set_seed(int s), for s >= 0
set_seed(s) == U64(s)

\* the seed after one step: seed = ((seed * a) + c) & mask
NextSeed(s) == And64(Add64(Mul64(s, a), c), mask)

\* size_t next_rand_int(size_t upper_bound), on the generator rng = [seed,
\* draws]: the new generator and the returned value.  draws counts the calls.
RandResult(s, draws, upper_bound) ==
    [rng |-> [seed |-> s, draws |-> draws + 1],
     ret |-> ModHigh(s, 8, upper_bound, 0)]
next_rand_int(rng, upper_bound) ==
    RandResult(NextSeed(rng.seed), rng.draws, upper_bound)

(***************************************************************************)
(* The symbol registries.  A Name_ID_Map is a function from the strings it  *)
(* holds to identifiers; std::unordered_map::operator[] inserts the key     *)
(* with value 0 when it is absent.                                          *)
(***************************************************************************)
EmptyMap == [k \in {} |-> 0]

\* const char *unquote(const char *n)
unquote(n) ==
    IF Len(n) = 0 \/ SubSeq(n, 1, 1) # "|" THEN n
    ELSE IF Len(n) > 1 /\ SubSeq(n, Len(n), Len(n)) = "|"
         THEN SubSeq(n, 2, Len(n) - 1)
         ELSE n

\* m[k] of std::unordered_map: the map after the access
MapIndex(m, k) == IF k \in DOMAIN m THEN m ELSE (k :> 0) @@ m

\* set_new_name without its test for a registered name
set_new_name_always(reg, n) ==
    [ids |-> [k \in DOMAIN reg.ids \cup {unquote(n)} |->
                 IF k = unquote(n) THEN reg.next ELSE reg.ids[k]],
     next |-> reg.next + 1]

\* void set_new_name(const char *n) on reg = [ids |-> name_ids, next |->
\* next_name_id]
set_new_name(reg, n) ==
    LET u == unquote(n)
    IN  IF u \notin DOMAIN reg.ids
        THEN [ids |-> (u :> reg.next) @@ reg.ids, next |-> reg.next + 1]
        ELSE reg

\* uint64_t get_name_id(const char *n) on the map ids: the map after the
\* call and the returned identifier
get_name_id(ids, n) ==
    LET u == unquote(n)
        m == MapIndex(ids, u)
    IN  [ids |-> m, ret |-> m[u]]

\* void set_new_name_sorted(const char *n) on reg = [ids |-> name_ids_sorted,
\* next |-> next_name_id_sorted]
set_new_name_sorted(reg, n) ==
    LET u == unquote(n)
    IN  IF u \notin DOMAIN reg.ids
        THEN [ids |-> (u :> reg.next) @@ reg.ids, next |-> reg.next + 1]
        ELSE reg

\* uint64_t get_name_id_sorted(const char *n)
get_name_id_sorted(ids, n) ==
    LET u == unquote(n)
        m == MapIndex(ids, u)
    IN  [ids |-> m, ret |-> m[u]]

(***************************************************************************)
(* Term trees.  A node is a record [symbol, is_name, needs_parens,          *)
(* children]; children own their subtrees, so a tree is a nested record.    *)
(***************************************************************************)
\* the node add_node(s, n1, ..) appends: kids are the non-null arguments
add_node(s, kids) ==
    [symbol |-> s, is_name |-> FALSE, needs_parens |-> TRUE, children |-> kids]

\* node *make_node(const char *s, node *n1, node *n2): s = "" for a null s
make_node(s, kids) ==
    [symbol |-> s, is_name |-> FALSE,
     needs_parens |-> ~(s # "" /\ kids = <<>>), children |-> kids]

\* node *make_node(const std::vector<node *> *v)
make_list_node(v) ==
    [symbol |-> "", is_name |-> FALSE, needs_parens |-> TRUE, children |-> v]

\* node *make_name_node(const char *s, node *n1), and node::add_children
make_name_node(s, kids) ==
    [symbol |-> s, is_name |-> TRUE, needs_parens |-> kids # <<>>,
     children |-> kids]

(***************************************************************************)
(* Shuffling and sorting.                                                   *)
(***************************************************************************)
RECURSIVE ShuffleLoop(_, _, _, _)
RECURSIVE ShuffleStep(_, _, _, _)
\* the body of the loop with the drawn index taken from the start of v
ShuffleStepNoStart(v, start, i, r) ==
    ShuffleLoop(Swap(v, i + start + 1, r.ret + 1), start, i - 1, r.rng)

\* the body of the loop of shuffle_list at index i, r being the draw
ShuffleStep(v, start, i, r) ==
    ShuffleLoop(Swap(v, i + start + 1, r.ret + start + 1), start, i - 1, r.rng)

\* the loop of shuffle_list from index i down to 1
ShuffleLoop(v, start, i, rng) ==
    IF i > 0 THEN ShuffleStep(v, start, i, next_rand_int(rng, i + 1))
    ELSE [v |-> v, rng |-> rng]

\* void shuffle_list(std::vector<node *> *v, size_t start, size_t end), for a
\* window of at least one element
shuffle_list(v, start, end, rng, noscr) ==
    IF ~noscr THEN ShuffleLoop(v, start, (end - start) - 1, rng)
    ELSE [v |-> v, rng |-> rng]

\* size_t n = end - start; size_t i = n - 1: the first index of the loop of
\* shuffle_list, in size_t
FirstIndex(start, end) == Sub64(U64(end - start), 1)

\* the 0-based indices of v that equal the size_t value x
IndexAt(v, x) == {k \in 0..(Len(v) - 1) : U64(k) = x}

\* the first iteration of the loop when the bound i + 1 is 0 in size_t:
\* next_rand_int advances the seed and then takes (seed >> 16) % 0, which is
\* undefined.  The build either traps at the division, or the division gives
\* some value q and std::swap reaches (*v)[i + start] and (*v)[q + start]:
\* the vector after the swap when both are elements of v, v as it was when
\* the access is outside the vector.  i then goes on from SIZE_MAX - 1.
ZeroBoundOutcomes(v, start, i, rng) ==
    LET drawn == [seed |-> NextSeed(rng.seed), draws |-> rng.draws + 1]
        at == IndexAt(v, Add64(i, start))
    IN  {[returned |-> FALSE, trapped |-> TRUE, accessed |-> FALSE,
          v |-> v, rng |-> drawn]}
        \cup
        {[returned |-> FALSE, trapped |-> FALSE, accessed |-> TRUE,
          v |-> IF at # {} /\ q + start < Len(v)
                THEN Swap(v, (CHOOSE k \in at : TRUE) + 1, q + start + 1)
                ELSE v,
          rng |-> drawn] : q \in 0..Len(v)}

\* a call of shuffle_list that returns from its loop
Returned(r, rng) ==
    [returned |-> TRUE, trapped |-> FALSE, accessed |-> r.rng.draws > rng.draws,
     v |-> r.v, rng |-> r.rng]

\* void shuffle_list(std::vector<node *> *v, size_t start, size_t end), for
\* any window start <= end: the outcomes of the call
ShuffleOutcomes(v, start, end, rng, noscr) ==
    IF ~noscr /\ FirstIndex(start, end) # U64(0)
              /\ Add64(FirstIndex(start, end), 1) = U64(0)
    THEN ZeroBoundOutcomes(v, start, FirstIndex(start, end), rng)
    ELSE {Returned(shuffle_list(v, start, end, rng, noscr), rng)}

\* the comparison of the rank sort turned around
RankGreater(ranks, i, j) == ranks[i + 1] > ranks[j + 1]

\* the comparison of the rank sort: ranks[i] < ranks[j] (0-based i, j)
RankLess(ranks, i, j) == ranks[i + 1] < ranks[j + 1]

\* std::sort(indices, comp) on indices 0..n-1: the k-th index (1-based k) of
\* the sorted vector.  Equivalent indices keep their order, as the insertion
\* sort std::sort applies to short ranges leaves them.
SortedIndices(n, ranks) ==
    LET Before(i, j) == RankLess(ranks, i, j) \/ (~RankLess(ranks, j, i) /\ i < j)
        Pos(i) == 1 + Cardinality({j \in 0..(n - 1) : j # i /\ Before(j, i)})
    IN  [k \in 1..n |-> CHOOSE i \in 0..(n - 1) : Pos(i) = k]

\* void shuffle_list(v, start, end, const std::vector<float> &ranks)
shuffle_list_ranks(v, start, end, ranks) ==
    LET n == end - start
        indices == SortedIndices(n, ranks)
        temp == [i \in 1..n |-> v[start + indices[i] + 1]]
    IN  [k \in 1..Len(v) |->
            IF k > start /\ k <= start + n THEN temp[k - start] ELSE v[k]]

\* a token of a rank file the stream extraction accepts, and one it rejects
Num(x) == [ok |-> TRUE, val |-> x]
Bad == [ok |-> FALSE, val |-> 0]

RECURSIVE ReadRanks(_, _, _, _)
\* the reading loop of get_ranks from index i: the vector read so far, or
\* <<"fail">> when an extraction fails
ReadRanks(file, size, i, output) ==
    IF i >= size THEN <<"ok", output>>
    ELSE IF i + 1 > Len(file.vals) \/ ~file.vals[i + 1].ok THEN <<"fail", output>>
    ELSE ReadRanks(file, size, i + 1, Append(output, file.vals[i + 1].val))

\* std::vector<float> get_ranks(int size) on the file named ranks_file_name:
\* file = [open, vals]
get_ranks(file, size) ==
    IF ~file.open THEN [i \in 1..size |-> 0]
    ELSE LET r == ReadRanks(file, size, 0, <<>>)
         IN  IF r[1] = "fail" THEN [i \in 1..size |-> 0] ELSE r[2]

(***************************************************************************)
(* First-occurrence numbering and the declaration sort.                     *)
(***************************************************************************)
\* the test of assign_num and find_var on a child: a name reference other
\* than the equality symbol
IsNameRef(n) == n.symbol # "" /\ n.is_name /\ n.symbol # "="

RECURSIVE assign_num(_, _)
RECURSIVE AssignNames(_, _, _)
RECURSIVE AssignRecurse(_, _, _)
\* the first loop of assign_num from child i: register the name children
AssignNames(n, i, reg) ==
    IF i >= Len(n.children) THEN reg
    ELSE AssignNames(n, i + 1,
            IF IsNameRef(n.children[i + 1])
            THEN set_new_name_sorted(reg, n.children[i + 1].symbol)
            ELSE reg)

\* the second loop of assign_num from child i: descend into the children
AssignRecurse(n, i, reg) ==
    IF i >= Len(n.children) THEN reg
    ELSE AssignRecurse(n, i + 1,
            IF i > 0 \/ n.symbol # ""
            THEN assign_num(n.children[i + 1], reg)
            ELSE reg)

\* void assign_num(const node *n) on reg = [ids, next] of the sorted registry
assign_num(n, reg) == AssignRecurse(n, 0, AssignNames(n, 0, reg))

RECURSIVE find_var(_, _)
\* uint64_t find_var(const node *n) on the sorted map ids: the map after the
\* call (the lookup inserts) and the returned identifier
find_var(n, ids) ==
    LET hits == {i \in 0..(Len(n.children) - 1) : IsNameRef(n.children[i + 1])}
        down == {i \in 0..(Len(n.children) - 1) : i > 0 \/ n.symbol # ""}
        Min(S) == CHOOSE x \in S : \A y \in S : x <= y
    IN  IF hits # {}
        THEN get_name_id_sorted(ids, n.children[Min(hits) + 1].symbol)
        ELSE IF down # {}
        THEN find_var(n.children[Min(down) + 1], ids)
        ELSE [ids |-> ids, ret |-> 0]

RECURSIVE TagLoop(_, _, _, _, _)
\* the first loop of sort_declarations from index i: the tags of the window
\* in order, and the sorted map after the lookups
TagLoop(v, i, end, ids, tags) ==
    IF i >= end THEN [tags |-> tags, ids |-> ids]
    ELSE LET f == find_var(v[i + 1], ids)
         IN  TagLoop(v, i + 1, end, f.ids, Append(tags, f.ret))

\* operator< of std::pair<uint64_t, node *> on window elements e and f
\* (1-based): by tag, then by the address of the node.  addr[k] is the rank
\* of the address of the root at position k among the roots of the buffer.
PairLess(tags, addr, start, e, f) ==
    \/ tags[e] < tags[f]
    \/ tags[e] = tags[f] /\ addr[start + e] < addr[start + f]

\* void sort_declarations(v, start, end): the buffer and the sorted map
sort_declarations(v, start, end, ids, addr) ==
    LET n == end - start
        t == TagLoop(v, start, end, ids, <<>>)
        Pos(e) == 1 + Cardinality({f \in 1..n : PairLess(t.tags, addr, start, f, e)})
        combined_data == [k \in 1..n |-> CHOOSE e \in 1..n : Pos(e) = k]
    IN  [v |-> [k \in 1..Len(v) |->
                  IF k > start /\ k <= start + n
                  THEN v[start + combined_data[k - start]] ELSE v[k]],
         ids |-> t.ids]

(***************************************************************************)
(* Printing.  opt = [no_scramble, gen_ucore, gen_mval, gen_proof,           *)
(* keep_annotations]; ps = [ids, n] threads the registry map the lookups    *)
(* insert into and the counter of make_annotation_name.                     *)
(***************************************************************************)
\* std::string make_name(uint64_t name_id)
make_name(name_id) == "x" \o ToString(name_id)

\* make_annotation_name without its ++n
make_annotation_name_same(n) == [name |-> "smtcomp" \o ToString(n), n |-> n]

\* std::string make_annotation_name(), from the static counter n: the name
\* and the counter after the call
make_annotation_name(n) == [name |-> "smtcomp" \o ToString(n), n |-> n + 1]

\* static bool keep_annotation(const node *n, annotation_mode keep_annotations)
keep_annotation(n, keep_annotations) ==
    IF keep_annotations = "none" THEN FALSE
    ELSE IF keep_annotations = "all" THEN TRUE
    ELSE Len(n.children) = 2 /\ n.children[2].symbol = ":pattern"

\* the lines appended after a check-sat command
CheckSatExtras(n, opt) ==
    IF n.symbol = "check-sat"
    THEN (IF opt.gen_ucore THEN "\n(get-unsat-core)" ELSE "")
         \o (IF opt.gen_mval THEN "\n(get-model)" ELSE "")
         \o (IF opt.gen_proof THEN "\n(get-proof)" ELSE "")
    ELSE ""

RECURSIVE print_node(_, _, _, _)
RECURSIVE PrintChildren(_, _, _, _, _)
RECURSIVE PrintSymbol(_, _, _, _, _)
\* the children loop of print_node from child i: text and ps after it
PrintChildren(n, i, opt, perm, acc) ==
    IF i >= Len(n.children) THEN acc
    ELSE LET sep == IF i > 0 \/ n.symbol # "" THEN " " ELSE ""
             r == print_node(n.children[i + 1], opt, perm,
                             [ids |-> acc.ids, n |-> acc.n])
         IN  PrintChildren(n, i + 1, opt, perm,
                 [text |-> acc.text \o sep \o r.text, ids |-> r.ids, n |-> r.n])

\* the end of print_node: the annotation name, the closing parenthesis and
\* the lines after a check-sat, kids being the outcome of the children loop
PrintClose(n, opt, name, kids) ==
    [text |-> kids.text
              \o (IF name # "" THEN " :named " \o name \o ")" ELSE "")
              \o (IF n.needs_parens THEN ")" ELSE "")
              \o CheckSatExtras(n, opt),
     ids |-> kids.ids, n |-> kids.n]

\* the look-up of print_node for the symbol of n, when it makes one
SymbolId(n, opt, ids) ==
    IF n.symbol # "" /\ ~(opt.no_scramble \/ ~n.is_name)
    THEN get_name_id(ids, n.symbol)
    ELSE [ids |-> ids, ret |-> 0]

\* print_node from the symbol on, look being the outcome of the look-up
PrintSymbol(n, opt, perm, ps, look) ==
    LET open == IF n.needs_parens THEN "(" ELSE ""
        sym == IF n.symbol = "" THEN ""
               ELSE IF look.ret = 0 THEN n.symbol
               ELSE make_name(perm[look.ret + 1])
        named == opt.gen_ucore /\ n.symbol = "assert"
        name == IF named THEN make_annotation_name(ps.n).name ELSE ""
        n1 == IF named THEN make_annotation_name(ps.n).n ELSE ps.n
    IN  PrintClose(n, opt, name,
            PrintChildren(n, 0, opt, perm,
                [text |-> open \o sym \o (IF name # "" THEN " (!" ELSE ""),
                 ids |-> look.ids, n |-> n1]))

\* void print_node(out, n, keep_annotations): the text written, the map
\* name_ids and the annotation counter after the call
print_node(n, opt, perm, ps) ==
    IF n.symbol = "!" /\ ~keep_annotation(n, opt.keep_annotations)
    THEN print_node(n.children[1], opt, perm, ps)
    ELSE PrintSymbol(n, opt, perm, ps, SymbolId(n, opt, ps.ids))

RECURSIVE print_node_sorted(_, _, _)
RECURSIVE PrintChildrenSorted(_, _, _, _)
RECURSIVE PrintSymbolSorted(_, _, _, _)
\* the children loop of print_node_sorted from child i: text and ps after it
PrintChildrenSorted(n, i, opt, acc) ==
    IF i >= Len(n.children) THEN acc
    ELSE LET sep == IF i > 0 \/ n.symbol # "" THEN " " ELSE ""
             r == print_node_sorted(n.children[i + 1], opt,
                             [ids |-> acc.ids, n |-> acc.n])
         IN  PrintChildrenSorted(n, i + 1, opt,
                 [text |-> acc.text \o sep \o r.text, ids |-> r.ids, n |-> r.n])

\* the end of print_node_sorted: the annotation name, the closing parenthesis and
\* the lines after a check-sat, kids being the outcome of the children loop
PrintCloseSorted(n, opt, name, kids) ==
    [text |-> kids.text
              \o (IF name # "" THEN " :named " \o name \o ")" ELSE "")
              \o (IF n.needs_parens THEN ")" ELSE "")
              \o CheckSatExtras(n, opt),
     ids |-> kids.ids, n |-> kids.n]

\* the look-up of print_node_sorted for the symbol of n, when it makes one
SymbolIdSorted(n, opt, ids) ==
    IF n.symbol # "" /\ ~(opt.no_scramble \/ ~n.is_name)
    THEN get_name_id_sorted(ids, n.symbol)
    ELSE [ids |-> ids, ret |-> 0]

\* print_node_sorted from the symbol on, look being the outcome of the look-up
PrintSymbolSorted(n, opt, ps, look) ==
    LET open == IF n.needs_parens THEN "(" ELSE ""
        sym == IF n.symbol = "" THEN ""
               ELSE IF look.ret = 0 THEN n.symbol
               ELSE make_name(look.ret)
        named == opt.gen_ucore /\ n.symbol = "assert"
        name == IF named THEN make_annotation_name(ps.n).name ELSE ""
        n1 == IF named THEN make_annotation_name(ps.n).n ELSE ps.n
    IN  PrintCloseSorted(n, opt, name,
            PrintChildrenSorted(n, 0, opt,
                [text |-> open \o sym \o (IF name # "" THEN " (!" ELSE ""),
                 ids |-> look.ids, n |-> n1]))

\* void print_node_sorted(out, n, keep_annotations): the text written, the map
\* name_ids_sorted and the annotation counter after the call
print_node_sorted(n, opt, ps) ==
    IF n.symbol = "!" /\ ~keep_annotation(n, opt.keep_annotations)
    THEN print_node_sorted(n.children[1], opt, ps)
    ELSE PrintSymbolSorted(n, opt, ps, SymbolIdSorted(n, opt, ps.ids))

(***************************************************************************)
(* The print passes.                                                        *)
(***************************************************************************)
\* s.find(sub) != std::string::npos
Contains(s, sub) ==
    \E k \in 1..Len(s) : k + Len(sub) - 1 <= Len(s) /\ SubSeq(s, k, k + Len(sub) - 1) = sub

\* the test of the declaration loop of print_ranked on a command
IsDeclOrDef(n) == Contains(n.symbol, "declare") \/ Contains(n.symbol, "define")

IsAssert(n) == n.symbol = "assert"
IsDeclareFun(n) == n.symbol = "declare-fun"

\* the test of a run scan: kind names the commands of the run
InRun(kind, n) ==
    IF kind = "assert" THEN IsAssert(n)
    ELSE IF kind = "declare-fun" THEN IsDeclareFun(n)
    ELSE IsDeclOrDef(n)

RECURSIVE RunEnd(_, _, _)
\* the inner while loop of the run scans: the first index j at or after the
\* given one whose command is not of the run
RunEnd(v, j, kind) ==
    IF j < Len(v) /\ InRun(kind, v[j + 1]) THEN RunEnd(v, j + 1, kind) ELSE j

RECURSIVE RankLoop(_, _, _)
\* the assertion loop of print_ranked from index i: the buffer after it, or
\* thrown when it throws std::invalid_argument
RankLoop(v, i, file) ==
    IF i >= Len(v) THEN [v |-> v, thrown |-> FALSE]
    ELSE LET already == FALSE
         IN  IF IsAssert(v[i + 1]) /\ ~already
             THEN LET j == RunEnd(v, i + 1, "assert")
                      ranks == get_ranks(file, j - i)
                  IN  RankLoop(IF j - i > 1 THEN shuffle_list_ranks(v, i, j, ranks)
                               ELSE v, j, file)
             ELSE IF IsAssert(v[i + 1]) /\ already
             THEN [v |-> v, thrown |-> TRUE]
             ELSE RankLoop(v, i + 1, file)

RECURSIVE NumberLoop(_, _, _)
\* the numbering loop of print_ranked from index i
NumberLoop(v, i, reg) ==
    IF i >= Len(v) THEN reg
    ELSE NumberLoop(v, i + 1,
            IF IsAssert(v[i + 1]) THEN assign_num(v[i + 1], reg) ELSE reg)

RECURSIVE DeclLoop(_, _, _, _)
\* the declaration loop of print_ranked from index i
DeclLoop(v, i, ids, addr) ==
    IF i >= Len(v) THEN [v |-> v, ids |-> ids, thrown |-> FALSE]
    ELSE LET already == FALSE
         IN  IF IsDeclOrDef(v[i + 1]) /\ ~already
             THEN LET j == RunEnd(v, i + 1, "declare|define")
                      r == IF j - i > 1 THEN sort_declarations(v, i, j, ids, addr)
                           ELSE [v |-> v, ids |-> ids]
                  IN  DeclLoop(r.v, j, r.ids, addr)
             ELSE IF IsDeclOrDef(v[i + 1]) /\ already
             THEN [v |-> v, ids |-> ids, thrown |-> TRUE]
             ELSE DeclLoop(v, i + 1, ids, addr)

RECURSIVE PrintLoopSorted(_, _, _, _)
\* the printing loop stopping one root early
PrintLoopSortedShort(v, i, opt, acc) ==
    IF i + 1 >= Len(v) THEN acc
    ELSE LET r == print_node_sorted(v[i + 1], opt, [ids |-> acc.ids, n |-> acc.n])
         IN  PrintLoopSorted(v, i + 1, opt,
                 [lines |-> Append(acc.lines, r.text), ids |-> r.ids, n |-> r.n,
                  deleted |-> Append(acc.deleted, v[i + 1])])

\* the printing loop of print_ranked from index i: print_command_sorted, then
\* del_node, of every root
PrintLoopSorted(v, i, opt, acc) ==
    IF i >= Len(v) THEN acc
    ELSE LET r == print_node_sorted(v[i + 1], opt, [ids |-> acc.ids, n |-> acc.n])
         IN  PrintLoopSorted(v, i + 1, opt,
                 [lines |-> Append(acc.lines, r.text), ids |-> r.ids, n |-> r.n,
                  deleted |-> Append(acc.deleted, v[i + 1])])

\* the outcome of print_ranked when a loop threw
RankedThrown(reg, n) ==
    [thrown |-> TRUE, order |-> <<>>, lines |-> <<>>, reg |-> reg, n |-> n,
     deleted |-> <<>>]

\* the outcome of print_ranked after the printing loop
RankedResult(order, next, printed) ==
    [thrown |-> FALSE, order |-> order, lines |-> printed.lines,
     reg |-> [ids |-> printed.ids, next |-> next], n |-> printed.n,
     deleted |-> printed.deleted]

\* the printing loop of print_ranked, after the declaration loop
RankedPrint(sorted, next, opt, n) ==
    IF sorted.thrown THEN RankedThrown([ids |-> sorted.ids, next |-> next], n)
    ELSE RankedResult(sorted.v, next,
             PrintLoopSorted(sorted.v, 0, opt,
                 [lines |-> <<>>, ids |-> sorted.ids, n |-> n, deleted |-> <<>>]))

\* the declaration loop of print_ranked, after the numbering loop
RankedSort(v, numbered, opt, n, addr) ==
    RankedPrint(DeclLoop(v, 0, numbered.ids, addr), numbered.next, opt, n)

\* the numbering loop of print_ranked, after the assertion loop
RankedNumber(ranked, reg, opt, n, addr) ==
    IF ranked.thrown THEN RankedThrown(reg, n)
    ELSE RankedSort(ranked.v, NumberLoop(ranked.v, 0, reg), opt, n, addr)

\* void print_ranked(out, keep_annotations) on the buffer v, the rank file,
\* the sorted registry reg = [ids, next], the annotation counter n and the
\* address order addr of the roots: the commands in the order printed, the
\* lines written, the registry and the counter after the pass
print_ranked(v, file, reg, opt, n, addr) ==
    RankedNumber(RankLoop(v, 0, file), reg, opt, n, addr)

RECURSIVE RunShuffleLoop(_, _, _, _)
RECURSIVE RunShuffleRun(_, _, _, _, _)
RECURSIVE RunShuffleNext(_, _, _)
\* the loop continues at index j with the outcome r of the shuffle
RunShuffleNext(r, j, kind) == RunShuffleLoop(r.v, j, r.rng, kind)

\* the run [i, j) found by the scan is shuffled when it has two commands
RunShuffleRun(v, i, j, rng, kind) ==
    RunShuffleNext(IF j - i > 1 THEN shuffle_list(v, i, j, rng, FALSE)
                   ELSE [v |-> v, rng |-> rng], j, kind)

\* a run-shuffling loop of print_scrambled from index i, for the runs of the
\* commands of the given kind
RunShuffleLoop(v, i, rng, kind) ==
    IF i >= Len(v) THEN [v |-> v, rng |-> rng]
    ELSE IF InRun(kind, v[i + 1])
    THEN RunShuffleRun(v, i, RunEnd(v, i + 1, kind), rng, kind)
    ELSE RunShuffleLoop(v, i + 1, rng, kind)

RECURSIVE KnuthLoop(_, _, _, _)
RECURSIVE KnuthStep(_, _, _, _)
\* the body of the Knuth shuffle with an assignment in place of the swap
KnuthStepAssign(perm, i, next, r) ==
    KnuthLoop([perm EXCEPT ![i + 1] = perm[(i + r.ret) + 1]], i + 1, next, r.rng)

\* the body of the Knuth shuffle at index i, r being the draw: j = i + r.ret
KnuthStep(perm, i, next, r) ==
    KnuthLoop(Swap(perm, i + 1, (i + r.ret) + 1), i + 1, next, r.rng)

\* the Knuth shuffle of print_scrambled from index i: perm holds
\* permuted_name_ids[k] at position k + 1
KnuthLoop(perm, i, next, rng) ==
    IF i < next - 1 THEN KnuthStep(perm, i, next, next_rand_int(rng, next - i))
    ELSE [perm |-> perm, rng |-> rng]

\* the new entries of permuted_name_ids: push_back(i) for i = old_size..next-1
PushIdentity(perm, next) ==
    perm \o [k \in 1..(next - Len(perm)) |-> Len(perm) + k - 1]

\* the permutation extension with the shuffle started at index 1 in every pass
ExtendPermutationAll(perm, next, rng) ==
    IF Len(perm) < next
    THEN KnuthLoop(PushIdentity(perm, next), 1, next, rng)
    ELSE [perm |-> perm, rng |-> rng]

\* the permutation-extension step of print_scrambled (old_size = Len(perm))
ExtendPermutation(perm, next, rng) ==
    IF Len(perm) < next
    THEN KnuthLoop(PushIdentity(perm, next),
                   IF Len(perm) = 0 THEN 1 ELSE Len(perm), next, rng)
    ELSE [perm |-> perm, rng |-> rng]

RECURSIVE PrintLoop(_, _, _, _, _)
\* the printing loop of print_scrambled from index i: print_command, then
\* del_node, of every root
PrintLoop(v, i, opt, perm, acc) ==
    IF i >= Len(v) THEN acc
    ELSE LET r == print_node(v[i + 1], opt, perm, [ids |-> acc.ids, n |-> acc.n])
         IN  PrintLoop(v, i + 1, opt, perm,
                 [lines |-> Append(acc.lines, r.text), ids |-> r.ids, n |-> r.n,
                  deleted |-> Append(acc.deleted, v[i + 1])])

\* void print_scrambled(out, keep_annotations) on the buffer v, the generator,
\* the map name_ids, next_name_id, permuted_name_ids and the annotation
\* counter n
ScrambledResult(order, ext, printed) ==
    [order |-> order, lines |-> printed.lines, rng |-> ext.rng,
     perm |-> ext.perm, ids |-> printed.ids, n |-> printed.n,
     deleted |-> printed.deleted]

\* the printing loop of print_scrambled, after the permutation extension ext
ScrambledPrint(order, ext, ids, opt, n) ==
    ScrambledResult(order, ext,
        PrintLoop(order, 0, opt, ext.perm,
                  [lines |-> <<>>, ids |-> ids, n |-> n, deleted |-> <<>>]))

\* the permutation extension of print_scrambled, after the shuffles asrts
ScrambledExtend(asrts, ids, next, perm, opt, n) ==
    ScrambledPrint(asrts.v, ExtendPermutation(perm, next, asrts.rng), ids, opt, n)

\* the assertion shuffles of print_scrambled, after the declaration shuffles
ScrambledAsserts(decls, ids, next, perm, opt, n) ==
    ScrambledExtend(RunShuffleLoop(decls.v, 0, decls.rng, "assert"),
                    ids, next, perm, opt, n)

print_scrambled(v, rng, ids, next, perm, opt, n) ==
    IF ~opt.no_scramble
    THEN ScrambledAsserts(RunShuffleLoop(v, 0, rng, "declare-fun"),
                          ids, next, perm, opt, n)
    ELSE ScrambledPrint(v, [perm |-> perm, rng |-> rng], ids, opt, n)

(***************************************************************************)
(* The logic of the benchmark and the operators that depend on it.          *)
(***************************************************************************)
\* set_logic with its test for an earlier value left out
set_logic_again(logic_now, l) == [logic |-> l, exited |-> FALSE]

\* void set_logic(const std::string &l) on the global logic: the value after
\* the call and whether the call ended in exit(1)
set_logic(logic_now, l) ==
    IF logic_now # "" THEN [logic |-> logic_now, exited |-> TRUE]
    ELSE [logic |-> l, exited |-> FALSE]

\* the static int result of the four predicates before their first call
NoResult == [kind \in {"dl", "arith", "bv", "fp"} |-> -1]

\* the substring test of logic_is_dl, logic_is_arith, logic_is_bv, logic_is_fp
LogicFind(kind, logic_now) ==
    CASE kind = "dl" -> Contains(logic_now, "IDL") \/ Contains(logic_now, "RDL")
      [] kind = "arith" -> Contains(logic_now, "IA") \/ Contains(logic_now, "RA")
      [] kind = "bv" -> Contains(logic_now, "BV")
      [] kind = "fp" -> Contains(logic_now, "FP")

\* bool logic_is_dl(), logic_is_arith(), logic_is_bv(), logic_is_fp(): the
\* answer, the static results after the call, and whether it ended in exit(1)
logic_is(kind, logic_now, result) ==
    IF result[kind] = -1
    THEN IF logic_now = ""
         THEN [exited |-> TRUE, ret |-> FALSE, result |-> result]
         ELSE [exited |-> FALSE, ret |-> LogicFind(kind, logic_now),
               result |-> [result EXCEPT ![kind] =
                              IF LogicFind(kind, logic_now) THEN 1 ELSE 0]]
    ELSE [exited |-> FALSE, ret |-> result[kind] = 1, result |-> result]

\* the symbol flip_antisymm and is_commutative look at: the first child's for
\* a qualified identifier (as identifier sort)
EffectiveSymbol(n) == IF n.symbol = "as" THEN n.children[1].symbol ELSE n.symbol

\* the arithmetic branch of flip_antisymm: the symbol made, "" for none
FlipArith(s) ==
    CASE s = "<" -> ">" [] s = ">" -> "<" [] s = "<=" -> ">=" [] s = ">=" -> "<="
      [] OTHER -> ""

\* the bit-vector branch of flip_antisymm
FlipBv(s) ==
    CASE s = "bvslt" -> "bvsgt" [] s = "bvsle" -> "bvsge"
      [] s = "bvult" -> "bvugt" [] s = "bvule" -> "bvuge"
      [] s = "bvsgt" -> "bvslt" [] s = "bvsge" -> "bvsle"
      [] s = "bvugt" -> "bvult" [] s = "bvuge" -> "bvule"
      [] OTHER -> ""

\* the floating-point branch of flip_antisymm
FlipFp(s) ==
    CASE s = "fp.leq" -> "fp.geq" [] s = "fp.lt" -> "fp.gt"
      [] s = "fp.geq" -> "fp.leq" [] s = "fp.gt" -> "fp.lt"
      [] OTHER -> ""

\* the outcomes of flip_antisymm: return false, return true with *out_n, exit
FlipFalse(rng, result) ==
    [ret |-> FALSE, made |-> FALSE, out_n |-> make_node("", <<>>), rng |-> rng,
     result |-> result, exited |-> FALSE]
FlipTrue(s, rng, result) ==
    [ret |-> TRUE, made |-> TRUE, out_n |-> make_node(s, <<>>), rng |-> rng,
     result |-> result, exited |-> FALSE]
FlipExit(rng, result) ==
    [ret |-> FALSE, made |-> FALSE, out_n |-> make_node("", <<>>), rng |-> rng,
     result |-> result, exited |-> TRUE]

\* flip_antisymm from its floating-point branch on, q being logic_is_fp()
FlipFromFp(s, rng, q) ==
    IF q.exited THEN FlipExit(rng, q.result)
    ELSE IF q.ret /\ FlipFp(s) # "" THEN FlipTrue(FlipFp(s), rng, q.result)
    ELSE FlipFalse(rng, q.result)

\* flip_antisymm from its bit-vector branch on, q being logic_is_bv()
FlipFromBv(s, rng, q, logic_now) ==
    IF q.exited THEN FlipExit(rng, q.result)
    ELSE IF q.ret /\ FlipBv(s) # "" THEN FlipTrue(FlipBv(s), rng, q.result)
    ELSE FlipFromFp(s, rng, logic_is("fp", logic_now, q.result))

\* flip_antisymm from its arithmetic branch on, q being logic_is_arith()
FlipFromArith(s, rng, q, logic_now) ==
    IF q.exited THEN FlipExit(rng, q.result)
    ELSE IF q.ret /\ FlipArith(s) # "" THEN FlipTrue(FlipArith(s), rng, q.result)
    ELSE FlipFromBv(s, rng, logic_is("bv", logic_now, q.result), logic_now)

\* flip_antisymm going on whatever the coin shows
FlipCoinIgnored(n, r, logic_now, result) ==
    FlipFromArith(EffectiveSymbol(n), r.rng,
                  logic_is("arith", logic_now, result), logic_now)

\* flip_antisymm after the coin r = next_rand_int(2)
FlipCoin(n, r, logic_now, result) ==
    IF r.ret = 0 THEN FlipFalse(r.rng, result)
    ELSE FlipFromArith(EffectiveSymbol(n), r.rng,
                       logic_is("arith", logic_now, result), logic_now)

\* bool flip_antisymm(const node *n, node ** const out_n)
flip_antisymm(n, rng, noscr, logic_now, result) ==
    IF noscr THEN FlipFalse(rng, result)
    ELSE FlipCoin(n, next_rand_int(rng, 2), logic_now, result)

(***************************************************************************)
(* The unsat-core filter.                                                   *)
(***************************************************************************)
RECURSIVE NodeAt(_, _)
\* the node of the tree root at path p (a sequence of 0-based child indices);
\* a path is the identity of a node
NodeAt(root, p) ==
    IF p = <<>> THEN root ELSE NodeAt(root.children[Head(p) + 1], Tail(p))

RECURSIVE NamedAnnotLoop(_, _, _)
\* the loop of get_named_annot on the stack to_process and the set seen
NamedAnnotLoop(root, to_process, seen) ==
    IF to_process = <<>> THEN ""
    ELSE LET cur == to_process[Len(to_process)]
             rest == SubSeq(to_process, 1, Len(to_process) - 1)
             node == NodeAt(root, cur)
             kids == [j \in 1..Len(node.children) |-> Append(cur, j - 1)]
             named == {j \in 1..(Len(node.children) - 1) :
                          /\ node.children[j + 1].symbol = ":named"
                          /\ node.children[j + 1].children # <<>>}
             first == CHOOSE j \in named : \A k \in named : j <= k
         IN  IF cur \in seen THEN NamedAnnotLoop(root, rest, seen)
             ELSE IF node.symbol = "!"
             THEN IF Len(node.children) >= 2 /\ named # {}
                  THEN node.children[first + 1].children[1].symbol
                  ELSE NamedAnnotLoop(root,
                          IF Len(node.children) >= 1 THEN Append(rest, kids[1])
                          ELSE rest, seen \cup {cur})
             ELSE NamedAnnotLoop(root, rest \o kids, seen \cup {cur})

\* std::string get_named_annot(node *root)
get_named_annot(root) == NamedAnnotLoop(root, <<<<>>>>, {})

\* the decision of filter_named with unnamed assertions dropped too
KeepNamedOnly(cur, to_keep) ==
    IF cur.symbol = "assert" THEN get_named_annot(cur) \in to_keep ELSE TRUE

\* the decision of filter_named on one command
Keep(cur, to_keep) ==
    IF cur.symbol = "assert"
    THEN LET name == get_named_annot(cur)
         IN  ~(name # "" /\ name \notin to_keep)
    ELSE TRUE

RECURSIVE FilterLoop(_, _, _, _)
\* the loop of filter_named from index i with write index k, then the resize
FilterLoop(v, i, k, to_keep) ==
    IF i >= Len(v) THEN SubSeq(v, 1, k)
    ELSE IF Keep(v[i + 1], to_keep)
    THEN FilterLoop([v EXCEPT ![k + 1] = v[i + 1]], i + 1, k + 1, to_keep)
    ELSE FilterLoop(v, i + 1, k, to_keep)

\* void filter_named(const StringSet &to_keep)
filter_named(v, to_keep) == FilterLoop(v, 0, 0, to_keep)

(***************************************************************************)
(* The inputs of the model: the command trees the parser appends, the       *)
(* names it declares and the configurations main is started with.           *)
(***************************************************************************)
NameF == make_name_node("f", <<>>)
NameG == make_name_node("g", <<>>)
NameQF == make_name_node("|f|", <<>>)
SortInt == make_node("Int", <<>>)

\* (declare-fun s () Int)
DeclareFun(s) ==
    add_node("declare-fun", <<make_name_node(s, <<>>), make_list_node(<<>>), SortInt>>)

\* (! t :named s)
Named(t, s) == make_node("!", <<t, make_node(":named", <<make_node(s, <<>>)>>)>>)

\* (assert t)
AssertCmd(t) == add_node("assert", <<t>>)

CheckSat == add_node("check-sat", <<>>)

Cmds ==
    { DeclareFun("f"), DeclareFun("g"),
      AssertCmd(make_name_node("=", <<NameG, NameQF>>)),
      AssertCmd(Named(NameF, "n1")),
      AssertCmd(Named(make_name_node("g", <<NameF>>), "n2")),
      CheckSat }

DeclNames == {"f", "|f|", "g", "h"}

NoFile == [open |-> FALSE, vals |-> <<>>]
File(vals) == [open |-> TRUE, vals |-> vals]

\* the options main parses, the -seed argument (0 disables scrambling), the
\* value of time(0), the rank file and the -core file's names
Config(seed_arg, ucore, keep, file, core, names) ==
    [seed_arg |-> seed_arg, time0 |-> 77,
     gen_incremental |-> FALSE, gen_ucore |-> ucore, gen_mval |-> ucore,
     gen_proof |-> FALSE, keep_annotations |-> keep, ranks_file |-> file,
     create_core |-> core, core_names |-> names]

Configs ==
    { Config(1, FALSE, "all", NoFile, FALSE, {}),
      Config(1, FALSE, "all", File(<<Num(2), Num(1)>>), FALSE, {}),
      Config(0, FALSE, "all", File(<<Num(2), Num(1)>>), FALSE, {}),
      Config(0, FALSE, "pattern", NoFile, FALSE, {}),
      Config(2, TRUE, "none", File(<<Num(1), Num(0), Num(2)>>), FALSE, {}),
      Config(2, FALSE, "all", NoFile, TRUE, {"n1"}) }

(***************************************************************************)
(* The state.                                                               *)
(***************************************************************************)
VARIABLES
    seed,                 \* uint64_t seed
    draws,                \* the number of next_rand_int calls so far
    options,              \* no_scramble and the gen_ flags, keep_annotations
    ranks_file,           \* the file named by ranks_file_name
    core,                 \* create_core and core_names of main
    name_ids,             \* Name_ID_Map name_ids
    next_name_id,         \* uint64_t next_name_id
    name_ids_sorted,      \* Name_ID_Map name_ids_sorted
    next_name_id_sorted,  \* uint64_t next_name_id_sorted
    permuted_name_ids,    \* std::vector<uint64_t> permuted_name_ids
    commands,             \* std::vector<node *> commands
    annot_n,              \* the static counter of make_annotation_name
    out,                  \* the lines written to std::cout
    out2,                 \* the lines a second run on the same input writes
    status,               \* "running", "done" or "aborted"
    added,                \* the number of commands appended so far
    pass,                 \* the last print pass: its input, its output and
                          \* the next identifier of its registry
    last,                 \* the last registry operation and its result
    declared,             \* the unquoted names declare was called with
    ops,                  \* the number of registry operations so far
    arg,                  \* the input of a function under test
    res,                  \* its result
    logic,                \* std::string logic
    logic_result,         \* the static int result of the logic_is_ predicates
    set_calls             \* the number of set_logic calls so far

vars ==
    <<seed, draws, options, ranks_file, core, name_ids, next_name_id,
      name_ids_sorted, next_name_id_sorted, permuted_name_ids, commands,
      annot_n, out, out2, status, added, pass, last, declared, ops, arg, res,
      logic, logic_result, set_calls>>

progVars ==
    <<seed, draws, options, ranks_file, core, name_ids, next_name_id,
      name_ids_sorted, next_name_id_sorted, permuted_name_ids, commands,
      annot_n, out, out2, status, added, pass>>
regVars == <<last, declared, ops>>
funVars == <<arg, res>>
logicVars == <<logic, logic_result, set_calls>>

NoPass ==
    [kind |-> "none", before |-> <<>>, filtered |-> <<>>, order |-> <<>>,
     lines |-> <<>>, thrown |-> FALSE, next_id |-> 1, deleted |-> <<>>,
     emitted |-> <<>>]
NoOp == [op |-> "none", text |-> "", ret |-> 0]
NoRes == [done |-> FALSE]

\* the option lines main writes before parsing
Prologue(cfg) ==
    (IF ~cfg.gen_incremental THEN <<"(set-option :print-success false)">> ELSE <<>>)
    \o (IF cfg.gen_ucore THEN <<"(set-option :produce-unsat-cores true)">> ELSE <<>>)
    \o (IF cfg.gen_mval THEN <<"(set-option :produce-models true)">> ELSE <<>>)
    \o (IF cfg.gen_proof THEN <<"(set-option :produce-proofs true)">> ELSE <<>>)

\* the state main reaches before its parsing loop, started with cfg
InitProgram(cfg) ==
    /\ seed = IF cfg.seed_arg > 0 THEN set_seed(cfg.seed_arg) ELSE set_seed(cfg.time0)
    /\ draws = 0
    /\ options = [no_scramble |-> cfg.seed_arg = 0, gen_ucore |-> cfg.gen_ucore,
                  gen_mval |-> cfg.gen_mval, gen_proof |-> cfg.gen_proof,
                  keep_annotations |-> cfg.keep_annotations]
    /\ ranks_file = cfg.ranks_file
    /\ core = [create_core |-> cfg.create_core, core_names |-> cfg.core_names]
    /\ name_ids = EmptyMap
    /\ next_name_id = 1
    /\ name_ids_sorted = EmptyMap
    /\ next_name_id_sorted = 1
    /\ permuted_name_ids = <<>>
    /\ commands = <<>>
    /\ annot_n = 1
    /\ out = Prologue(cfg)
    /\ out2 = Prologue(cfg)
    /\ status = "running"
    /\ added = 0
    /\ pass = NoPass

IdleRegistry == last = NoOp /\ declared = {} /\ ops = 0
IdleFunction == arg = [fn |-> "none"] /\ res = NoRes
IdleLogic == logic = "" /\ logic_result = NoResult /\ set_calls = 0

Init ==
    /\ \E cfg \in Configs : InitProgram(cfg)
    /\ IdleRegistry /\ IdleFunction /\ IdleLogic

(***************************************************************************)
(* The operations of the program.                                           *)
(***************************************************************************)
\* the node object of the k-th root the parser made: the tree cmd at its own
\* address, which the field root stands for
Root(cmd, k) ==
    [symbol |-> cmd.symbol, is_name |-> cmd.is_name,
     needs_parens |-> cmd.needs_parens, children |-> cmd.children, root |-> k]

\* the parser appends one command: add_node
AddNode(cmd) ==
    /\ status = "running"
    /\ added < MaxCmds
    /\ commands' = Append(commands, Root(cmd, added + 1))
    /\ added' = added + 1
    /\ UNCHANGED <<seed, draws, options, ranks_file, core, name_ids, next_name_id,
                   name_ids_sorted, next_name_id_sorted, permuted_name_ids,
                   annot_n, out, out2, status, pass>>
    /\ UNCHANGED <<regVars, funVars, logicVars>>

\* the parser declares a name: scrambler::set_new_name
SetNewName(n) ==
    /\ status = "running"
    /\ LET r == set_new_name([ids |-> name_ids, next |-> next_name_id], n)
       IN  name_ids' = r.ids /\ next_name_id' = r.next
    /\ UNCHANGED <<seed, draws, options, ranks_file, core, name_ids_sorted,
                   next_name_id_sorted, permuted_name_ids, commands, annot_n,
                   out, out2, status, added, pass>>
    /\ UNCHANGED <<regVars, funVars, logicVars>>

\* the buffer main hands to the print pass: filter_named when -core is given
Filtered == IF core.create_core THEN filter_named(commands, core.core_names)
            ELSE commands

\* the address orders of the roots of v that print_ranked can tell apart:
\* sort_declarations compares the addresses of declarations and definitions
\* only, so the other roots are left at their place in the order
AddrOrders(v) ==
    {addr \in Perms(Len(v)) :
        \A k \in 1..Len(v) : ~IsDeclOrDef(v[k]) => addr[k] = k}

\* one call of print_ranked from main on the buffer v; done tells whether main
\* returns after it.  The address order of the roots is not fixed by the
\* input, so the pass has one outcome per order; a second run on the same
\* input has its own.
PrintRanked(v, done) ==
    LET reg == [ids |-> name_ids_sorted, next |-> next_name_id_sorted]
        outcomes == {print_ranked(v, ranks_file, reg, options, annot_n, addr) :
                        addr \in AddrOrders(v)}
    IN  \E r \in outcomes : \E r2 \in outcomes :
            /\ name_ids_sorted' = r.reg.ids
            /\ next_name_id_sorted' = r.reg.next
            /\ annot_n' = r.n
            /\ out' = out \o r.lines
            /\ out2' = out2 \o r2.lines
            /\ commands' = IF r.thrown THEN v ELSE <<>>
            /\ status' = IF r.thrown THEN "aborted" ELSE IF done THEN "done" ELSE "running"
            /\ pass' = [kind |-> "ranked", before |-> commands, filtered |-> v,
                        order |-> r.order, lines |-> r.lines, thrown |-> r.thrown,
                        next_id |-> r.reg.next, deleted |-> r.deleted,
                        emitted |-> pass.emitted \o r.order]
            /\ UNCHANGED <<seed, draws, options, ranks_file, core, name_ids,
                           next_name_id, permuted_name_ids, added>>

\* one call of print_scrambled on the buffer v
PrintScrambled(v, done) ==
    \E r \in {print_scrambled(v, [seed |-> seed, draws |-> draws], name_ids,
                              next_name_id, permuted_name_ids, options, annot_n)} :
        /\ seed' = r.rng.seed
        /\ draws' = r.rng.draws
        /\ name_ids' = r.ids
        /\ permuted_name_ids' = r.perm
        /\ annot_n' = r.n
        /\ out' = out \o r.lines
        /\ out2' = out2 \o r.lines
        /\ commands' = <<>>
        /\ status' = IF done THEN "done" ELSE "running"
        /\ pass' = [kind |-> "scrambled", before |-> commands, filtered |-> v,
                    order |-> r.order, lines |-> r.lines, thrown |-> FALSE,
                    next_id |-> next_name_id, deleted |-> r.deleted,
                    emitted |-> pass.emitted \o r.order]
        /\ UNCHANGED <<options, ranks_file, core, next_name_id, name_ids_sorted,
                       next_name_id_sorted, added>>

\* main may flush: a yyparse left a check-sat last in the buffer
CanFlush ==
    /\ status = "running"
    /\ commands # <<>>
    /\ commands[Len(commands)].symbol = "check-sat"

\* main at the end of the input with nothing left to print
FinishEmpty ==
    /\ commands' = Filtered
    /\ status' = "done"
    /\ UNCHANGED <<seed, draws, options, ranks_file, core, name_ids,
                   next_name_id, name_ids_sorted, next_name_id_sorted,
                   permuted_name_ids, annot_n, out, out2, added, pass>>

\* main, after a yyparse that left a check-sat last in the buffer
Flush ==
    /\ CanFlush
    /\ PrintRanked(Filtered, FALSE)
    /\ UNCHANGED <<regVars, funVars, logicVars>>

\* main at the end of the input
Finish ==
    /\ status = "running"
    /\ IF Filtered # <<>> THEN PrintRanked(Filtered, TRUE) ELSE FinishEmpty
    /\ UNCHANGED <<regVars, funVars, logicVars>>

\* the same two steps of main built with print_scrambled (the call at lines
\* 1369 and 1378) as its print pass
FlushScrambled ==
    /\ CanFlush
    /\ PrintScrambled(Filtered, FALSE)
    /\ UNCHANGED <<regVars, funVars, logicVars>>

FinishScrambled ==
    /\ status = "running"
    /\ IF Filtered # <<>> THEN PrintScrambled(Filtered, TRUE) ELSE FinishEmpty
    /\ UNCHANGED <<regVars, funVars, logicVars>>

\* main as it is: print_ranked reads neither name_ids nor permuted_name_ids,
\* so the declarations of the parser are left to SpecScrambled
Next ==
    \/ \E cmd \in Cmds : AddNode(cmd)
    \/ Flush
    \/ Finish

Spec == Init /\ [][Next]_vars

\* main with print_scrambled as its print pass
InitScrambled ==
    /\ \E cfg \in {g \in Configs : ~g.ranks_file.open} : InitProgram(cfg)
    /\ IdleRegistry /\ IdleFunction /\ IdleLogic

NextScrambled ==
    \/ \E cmd \in Cmds : AddNode(cmd)
    \/ \E n \in DeclNames : SetNewName(n)
    \/ FlushScrambled
    \/ FinishScrambled

SpecScrambled == InitScrambled /\ [][NextScrambled]_vars

(***************************************************************************)
(* The registry on its own: any sequence of declarations and look-ups.      *)
(* set_new_name_sorted and get_name_id_sorted are the same code on          *)
(* name_ids_sorted.                                                         *)
(***************************************************************************)
RegTexts == {"a", "|a|", "b", "|b|", "|", "|a"}

InitRegistry ==
    /\ InitProgram(CHOOSE cfg \in Configs : cfg.seed_arg = 0 /\ cfg.ranks_file.open)
    /\ IdleRegistry /\ IdleFunction /\ IdleLogic

\* declare(text): scrambler::set_new_name
Declare(n) ==
    /\ ops < MaxOps
    /\ LET r == set_new_name([ids |-> name_ids, next |-> next_name_id], n)
       IN  name_ids' = r.ids /\ next_name_id' = r.next
    /\ last' = [op |-> "declare", text |-> n, ret |-> 0]
    /\ declared' = declared \cup {unquote(n)}
    /\ ops' = ops + 1
    /\ UNCHANGED <<seed, draws, options, ranks_file, core, name_ids_sorted,
                   next_name_id_sorted, permuted_name_ids, commands, annot_n,
                   out, out2, status, added, pass>>
    /\ UNCHANGED <<funVars, logicVars>>

\* lookup(text): get_name_id
Lookup(n) ==
    /\ ops < MaxOps
    /\ LET r == get_name_id(name_ids, n)
       IN  name_ids' = r.ids /\ last' = [op |-> "lookup", text |-> n, ret |-> r.ret]
    /\ ops' = ops + 1
    /\ UNCHANGED <<seed, draws, options, ranks_file, core, next_name_id,
                   name_ids_sorted, next_name_id_sorted, permuted_name_ids,
                   commands, annot_n, out, out2, status, added, pass>>
    /\ UNCHANGED <<declared, funVars, logicVars>>

NextRegistry ==
    \/ \E n \in RegTexts : Declare(n)
    \/ \E n \in RegTexts : Lookup(n)

SpecRegistry == InitRegistry /\ [][NextRegistry]_vars

(***************************************************************************)
(* The functions on their own: arg is drawn from the inputs below and one   *)
(* action applies the function it names.                                    *)
(***************************************************************************)
\* the vector of n distinct roots, the root at index k being k + 1
Roots(n) == [k \in 1..n |-> k]

Seeds == {1, 2, 3}

ShuffleInputs ==
    {[fn |-> "shuffle_list", v |-> Roots(n), start |-> w[1], end |-> w[2],
      seed |-> set_seed(sd), no_scramble |-> ns] :
        n \in 0..MaxVec, w \in (0..MaxVec) \X (0..MaxVec), sd \in Seeds,
        ns \in BOOLEAN}

RankInputs ==
    {[fn |-> "shuffle_list_ranks", v |-> Roots(n), start |-> w[1], end |-> w[2],
      ranks |-> rk] :
        n \in 1..MaxVec, w \in (0..MaxVec) \X (0..MaxVec),
        rk \in UNION {[1..k -> 0..MaxRank] : k \in 1..MaxVec}}

Tokens == {Num(x) : x \in 0..MaxRank} \cup {Bad}

RankFiles ==
    {NoFile} \cup {File(vals) : vals \in UNION {[1..k -> Tokens] : k \in 0..MaxVec}}

GetRanksInputs ==
    {[fn |-> "get_ranks", file |-> f, size |-> n] : f \in RankFiles, n \in 1..MaxVec}

\* the sequences of one or two elements of S
OneOrTwo(S) == {<<x>> : x \in S} \cup {<<x, y>> : x \in S, y \in S}

\* the leaves of the terms handed to find_var: two names and a numeral
TermLeaves == {NameF, NameG, make_node("1", <<>>)}

\* the applications of an operator to one or two leaves
TermApps == {make_node("op", kids) : kids \in OneOrTwo(TermLeaves)}

\* the sorted registry with f and g numbered
MapFG == ("f" :> 1) @@ ("g" :> 2)

\* the commands handed to find_var: one or two leaves or applications under
\* a command symbol
FindVarInputs ==
    {[fn |-> "find_var", n |-> add_node("define-fun", kids), ids |-> MapFG] :
        kids \in OneOrTwo(TermLeaves \cup TermApps)}

\* the buffers handed to sort_declarations: declarations of f, which an
\* assertion numbered 1, and of h and k, which no assertion refers to; the
\* root at position k is the k-th node made
SortInputs ==
    {[fn |-> "sort_declarations",
      v |-> [k \in 1..Len(names) |-> Root(DeclareFun(names[k]), k)],
      start |-> start, end |-> end, ids |-> ("f" :> 1)] :
        names \in UNION {[1..m -> {"f", "h", "k"}] : m \in 2..MaxVec},
        start \in 0..MaxVec, end \in 0..MaxVec}

\* the commands of the buffers handed to the numbering loop of print_ranked
NumberCmds ==
    { AssertCmd(make_name_node("=", <<make_name_node("g", <<NameF>>),
                                      make_name_node("h", <<>>)>>)),
      AssertCmd(make_name_node("=", <<NameG, NameQF>>)),
      AssertCmd(Named(NameF, "n1")),
      DeclareFun("k") }

\* the buffers handed to the numbering loop, the sorted registry being empty
NumberInputs == {[fn |-> "assign_num", v |-> v] : v \in OneOrTwo(NumberCmds)}

\* (! t :pattern (u))
Pattern(t, u) == make_node("!", <<t, make_node(":pattern", <<u>>)>>)

\* the terms of the assertions handed to get_named_annot: names, named
\* terms, terms with a pattern, and applications of g to one of these
PlainTerms == {NameF, NameG}
NamedTerms == {Named(t, s) : t \in PlainTerms, s \in {"n1", "n2"}}
PatternTerms ==
    {Pattern(t, u) : t \in PlainTerms \cup NamedTerms,
                     u \in PlainTerms \cup NamedTerms}
AppliedTerms ==
    {make_name_node("g", <<t>>) : t \in PlainTerms \cup NamedTerms \cup PatternTerms}

NamedAnnotInputs ==
    {[fn |-> "get_named_annot", n |-> AssertCmd(t)] :
        t \in PlainTerms \cup NamedTerms \cup PatternTerms \cup AppliedTerms}

\* the generators and bounds handed to next_rand_int
RandInputs ==
    {[fn |-> "next_rand_int", seed |-> s, bound |-> b] :
        s \in Seeds, b \in {1, 2, 3, 5}}

InitFunctions ==
    /\ InitProgram(CHOOSE cfg \in Configs : cfg.seed_arg = 0 /\ cfg.ranks_file.open)
    /\ IdleRegistry /\ IdleLogic
    /\ res = NoRes
    /\ \/ /\ arg \in ShuffleInputs
          /\ arg.start <= arg.end /\ arg.end <= Len(arg.v)
       \/ /\ arg \in RankInputs
          /\ arg.start < arg.end /\ arg.end <= Len(arg.v)
          /\ Len(arg.ranks) = arg.end - arg.start
       \/ arg \in GetRanksInputs
       \/ arg \in FindVarInputs
       \/ arg \in RandInputs
       \/ arg \in NamedAnnotInputs
       \/ arg \in NumberInputs
       \/ /\ arg \in SortInputs
          /\ arg.start < arg.end /\ arg.end <= Len(arg.v)

\* shuffle_list(&v, start, end)
CallShuffle ==
    /\ arg.fn = "shuffle_list" /\ ~res.done
    /\ \E r \in ShuffleOutcomes(arg.v, arg.start, arg.end,
                                  [seed |-> arg.seed, draws |-> 0],
                                  arg.no_scramble) :
           res' = [done |-> TRUE, v |-> r.v, seed |-> r.rng.seed,
                   draws |-> r.rng.draws, returned |-> r.returned,
                   trapped |-> r.trapped, accessed |-> r.accessed]
    /\ UNCHANGED <<progVars, regVars, arg, logicVars>>

\* shuffle_list(&v, start, end, ranks)
CallRankShuffle ==
    /\ arg.fn = "shuffle_list_ranks" /\ ~res.done
    /\ res' = [done |-> TRUE,
               v |-> shuffle_list_ranks(arg.v, arg.start, arg.end, arg.ranks)]
    /\ UNCHANGED <<progVars, regVars, arg, logicVars>>

\* get_ranks(size)
CallGetRanks ==
    /\ arg.fn = "get_ranks" /\ ~res.done
    /\ res' = [done |-> TRUE, ranks |-> get_ranks(arg.file, arg.size)]
    /\ UNCHANGED <<progVars, regVars, arg, logicVars>>

\* find_var(n)
CallFindVar ==
    /\ arg.fn = "find_var" /\ ~res.done
    /\ res' = [done |-> TRUE, ret |-> find_var(arg.n, arg.ids).ret]
    /\ UNCHANGED <<progVars, regVars, arg, logicVars>>

\* sort_declarations(&commands, start, end); the addresses of the roots are
\* the allocator's choice
CallSortDeclarations ==
    /\ arg.fn = "sort_declarations" /\ ~res.done
    /\ \E addr \in Perms(Len(arg.v)) :
          res' = [done |-> TRUE,
                  v |-> sort_declarations(arg.v, arg.start, arg.end, arg.ids, addr).v]
    /\ UNCHANGED <<progVars, regVars, arg, logicVars>>

\* the numbering loop of print_ranked: assign_num on every assertion
CallAssignNum ==
    /\ arg.fn = "assign_num" /\ ~res.done
    /\ res' = [done |-> TRUE,
               reg |-> NumberLoop(arg.v, 0, [ids |-> EmptyMap, next |-> 1])]
    /\ UNCHANGED <<progVars, regVars, arg, logicVars>>

\* get_named_annot(root)
CallGetNamedAnnot ==
    /\ arg.fn = "get_named_annot" /\ ~res.done
    /\ res' = [done |-> TRUE, name |-> get_named_annot(arg.n)]
    /\ UNCHANGED <<progVars, regVars, arg, logicVars>>

\* next_rand_int(bound), again and again on the generator set_seed(seed)
\* started: prev is the state before the call, seed the state after it
CallNextRand ==
    /\ arg.fn = "next_rand_int"
    /\ (IF res.done THEN res.calls ELSE 0) < MaxDraws
    /\ \E r \in {next_rand_int(
                    [seed |-> IF res.done THEN res.seed ELSE set_seed(arg.seed),
                     draws |-> IF res.done THEN res.calls ELSE 0], arg.bound)} :
          res' = [done |-> TRUE,
                  prev |-> IF res.done THEN res.seed ELSE set_seed(arg.seed),
                  seed |-> r.rng.seed, ret |-> r.ret, calls |-> r.rng.draws]
    /\ UNCHANGED <<progVars, regVars, arg, logicVars>>

NextFunctions ==
    \/ CallNextRand
    \/ CallAssignNum
    \/ CallGetNamedAnnot
    \/ CallShuffle
    \/ CallRankShuffle
    \/ CallGetRanks
    \/ CallFindVar
    \/ CallSortDeclarations

SpecFunctions == InitFunctions /\ [][NextFunctions]_vars

(***************************************************************************)
(* The logic and flip_antisymm, called in any order.                        *)
(***************************************************************************)
\* the logic names of set-logic commands; a symbol reaches the program as the
\* lexer read it, a quoted one with its bars (see unquote), so never empty
Logics == {"QF_LIA", "QF_RDL", "QF_BV", "QF_FP", "QF_ABVFPLRA"}

\* the operators of the nodes handed to flip_antisymm
FlipOps ==
    {"<", ">", "<=", ">=", "bvslt", "bvsle", "bvult", "bvule", "bvsgt", "bvsge",
     "bvugt", "bvuge", "fp.leq", "fp.lt", "fp.geq", "fp.gt", "and", "="}

\* the nodes handed to flip_antisymm: an operator, alone or qualified
FlipNodes ==
    {make_node(s, <<>>) : s \in FlipOps}
    \cup {make_node("as", <<make_node(s, <<>>), make_node("Int", <<>>)>>) :
             s \in {"<", "bvuge", "fp.gt", "and"}}

InitLogic ==
    /\ \E cfg \in Configs : InitProgram(cfg)
    /\ IdleRegistry /\ IdleFunction /\ IdleLogic

\* the parser meets a set-logic command: scrambler::set_logic
SetLogic(l) ==
    /\ status = "running" /\ ops < MaxOps
    /\ \E r \in {set_logic(logic, l)} :
          /\ logic' = r.logic
          /\ status' = IF r.exited THEN "aborted" ELSE status
          /\ res' = [done |-> TRUE, exited |-> r.exited]
    /\ arg' = [fn |-> "set_logic", l |-> l, calls |-> set_calls]
    /\ set_calls' = set_calls + 1
    /\ ops' = ops + 1
    /\ UNCHANGED <<seed, draws, options, ranks_file, core, name_ids, next_name_id,
                   name_ids_sorted, next_name_id_sorted, permuted_name_ids,
                   commands, annot_n, out, out2, added, pass>>
    /\ UNCHANGED <<last, declared, logic_result>>

\* the parser meets an application: scrambler::flip_antisymm
FlipAntisymm(n) ==
    /\ status = "running" /\ ops < MaxOps
    /\ \E r \in {flip_antisymm(n, [seed |-> seed, draws |-> draws],
                               options.no_scramble, logic, logic_result)} :
          /\ seed' = r.rng.seed
          /\ draws' = r.rng.draws
          /\ logic_result' = r.result
          /\ status' = IF r.exited THEN "aborted" ELSE status
          /\ res' = [done |-> TRUE, exited |-> r.exited, ret |-> r.ret,
                     made |-> r.made, out_n |-> r.out_n]
    /\ arg' = [fn |-> "flip_antisymm", n |-> n, seed |-> seed, draws |-> draws]
    /\ ops' = ops + 1
    /\ UNCHANGED <<options, ranks_file, core, name_ids, next_name_id,
                   name_ids_sorted, next_name_id_sorted, permuted_name_ids,
                   commands, annot_n, out, out2, added, pass>>
    /\ UNCHANGED <<last, declared, logic, set_calls>>

NextLogic ==
    \/ \E l \in Logics : SetLogic(l)
    \/ \E n \in FlipNodes : FlipAntisymm(n)

SpecLogic == InitLogic /\ [][NextLogic]_vars

(***************************************************************************)
(* The claims.                                                              *)
(***************************************************************************)
\* C1: for a fixed seed, input and options, two runs write the same lines in
\* the same order: the output of a second run on the same input equals the
\* output of the first.
C1_Determinism == out2 = out

\* the lines the printer writes for the commands of v with no renaming
LiteralLines(v) ==
    [k \in 1..Len(v) |->
        print_node_sorted(v[k], [options EXCEPT !.no_scramble = TRUE],
                          [ids |-> EmptyMap, n |-> 1]).text]

\* C2: with scrambling disabled, a print pass emits the buffered commands in
\* the order in which they were appended and prints every symbol literally.
C2_NoScrambleKeepsOrder ==
    (pass.kind # "none" /\ options.no_scramble) =>
        /\ pass.order = pass.filtered
        /\ ~options.gen_ucore => pass.lines = LiteralLines(pass.filtered)

\* the commands filter_named is to retain: every command but the assertions
\* whose named annotation is non-empty and not in keep_set
Retained(cmd, keep_set) ==
    \/ cmd.symbol # "assert"
    \/ get_named_annot(cmd) = ""
    \/ get_named_annot(cmd) \in keep_set

\* the order-preserving subsequence of v of the commands to retain
RetainedOf(v, keep_set) ==
    LET Test(cmd) == Retained(cmd, keep_set) IN SelectSeq(v, Test)

\* C3: after filter_named(keep_set) the buffer is the order-preserving
\* subsequence of the previous buffer that holds every non-assertion, every
\* unnamed assertion and every assertion named in keep_set, and no other
\* assertion.
C3_FilterCorrect ==
    (pass.kind # "none" /\ core.create_core) =>
        pass.filtered = RetainedOf(pass.before, core.core_names)

\* C3 happens: a pass whose filter dropped a named assertion and kept a
\* named one and an unnamed one
C3_Witness ==
    /\ pass.kind = "ranked" /\ core.create_core
    /\ Len(pass.filtered) < Len(pass.before)
    /\ \E k \in 1..Len(pass.filtered) :
          pass.filtered[k].symbol = "assert" /\ get_named_annot(pass.filtered[k]) = ""
    /\ \E k \in 1..Len(pass.filtered) :
          get_named_annot(pass.filtered[k]) \in core.core_names

\* the window [start, end) of v, as a sequence
Window(v, start, end) == SubSeq(v, start + 1, end)

\* v and w agree outside the window [start, end)
SameOutside(v, w, start, end) ==
    /\ Len(v) = Len(w)
    /\ \A k \in 1..Len(v) : (k <= start \/ k > end) => v[k] = w[k]

\* C4: after the rank-based shuffle_list the window holds a permutation of
\* its assertions in ascending rank order and the commands outside the window
\* are unchanged.  (The root at index k of the input is k + 1, so the rank of
\* the root r is ranks[r - start].)
C4_RankReorder ==
    (res.done /\ arg.fn = "shuffle_list_ranks") =>
        /\ IsPermutation(Window(res.v, arg.start, arg.end),
                         Window(arg.v, arg.start, arg.end))
        /\ \A k \in (arg.start + 1)..(arg.end - 1) :
              arg.ranks[res.v[k] - arg.start] <= arg.ranks[res.v[k + 1] - arg.start]
        /\ SameOutside(res.v, arg.v, arg.start, arg.end)

\* C4 happens: ranks 2, 1 for A, B give B, A, inside a longer buffer
C4_Witness ==
    /\ res.done /\ arg.fn = "shuffle_list_ranks"
    /\ arg.ranks = <<2, 1>> /\ arg.start = 1 /\ Len(arg.v) = 3
    /\ res.v = <<1, 3, 2>>

\* C5: after the permutation extension of a print_scrambled pass,
\* permuted_name_ids restricted to the identifiers 1..next_name_id-1 of the
\* pass is a bijection onto 1..next_name_id-1 (and index 0 holds 0).
C5_PermutationBijective ==
    (pass.kind = "scrambled" /\ ~options.no_scramble) =>
        /\ Len(permuted_name_ids) >= pass.next_id
        /\ permuted_name_ids[1] = 0
        /\ {permuted_name_ids[k + 1] : k \in 1..(pass.next_id - 1)}
              = 1..(pass.next_id - 1)
        /\ \A j, k \in 1..(pass.next_id - 1) :
              permuted_name_ids[j + 1] = permuted_name_ids[k + 1] => j = k

\* C5 happens: a pass after an earlier one has exchanged two identifiers
C5_Witness ==
    /\ pass.kind = "scrambled" /\ ~options.no_scramble
    /\ pass.next_id = 3
    /\ permuted_name_ids = <<0, 2, 1>>
    /\ Len(out) > Len(pass.lines) + 1

\* C6: after shuffle_list(v, start, end) on a window of at least one element
\* the window holds a permutation of its elements and v is unchanged outside
\* it; with scrambling disabled v is unchanged and no draw is made.
C6_ShufflePermutes ==
    (res.done /\ arg.fn = "shuffle_list" /\ arg.start < arg.end) =>
        /\ IsPermutation(Window(res.v, arg.start, arg.end),
                         Window(arg.v, arg.start, arg.end))
        /\ SameOutside(res.v, arg.v, arg.start, arg.end)
        /\ arg.no_scramble =>
              res.v = arg.v /\ res.draws = 0 /\ res.seed = arg.seed

\* C6 happens: a window inside the vector was reordered
C6_Witness ==
    /\ res.done /\ arg.fn = "shuffle_list" /\ ~arg.no_scramble
    /\ arg.start > 0 /\ arg.end - arg.start >= 2
    /\ res.v # arg.v /\ res.draws > 0

\* C7: a lookup returns a nonzero identifier when declare was called with the
\* name before, and 0 when the name was never declared.
C7_DeclaredResolves ==
    last.op = "lookup" =>
        IF unquote(last.text) \in declared THEN last.ret # 0 ELSE last.ret = 0

\* the names of the registry that hold an identifier
Registered == {n \in DOMAIN name_ids : name_ids[n] # 0}

\* the identifiers held are 1..next_name_id-1, each by one name
IdsSequential ==
    /\ {name_ids[n] : n \in Registered} = 1..(next_name_id - 1)
    /\ \A m, n \in Registered : name_ids[m] = name_ids[n] => m = n

\* a step keeps every identifier, hands out next_name_id to a new name and
\* leaves the registry alone when a registered name is declared again
IdsKept ==
    /\ \A n \in Registered : n \in DOMAIN name_ids' /\ name_ids'[n] = name_ids[n]
    /\ \A n \in DOMAIN name_ids' :
          (name_ids'[n] # 0 /\ n \notin Registered) =>
              name_ids'[n] = next_name_id /\ next_name_id' = next_name_id + 1
    /\ (last'.op = "declare" /\ unquote(last'.text) \in Registered) =>
          name_ids' = name_ids /\ next_name_id' = next_name_id

\* C8: identifiers are assigned once, sequentially from 1, in first-
\* declaration order; an identifier never changes; declaring a registered
\* name again, quoted or not, changes neither the map nor the counter.
C8_SequentialIds == [][IdsSequential /\ IdsSequential' /\ IdsKept]_vars

\* C8 happens: a, b and then |a| were declared
C8_Witness ==
    /\ last = [op |-> "declare", text |-> "|a|", ret |-> 0]
    /\ DOMAIN name_ids = {"a", "b"} /\ name_ids["a"] = 1 /\ name_ids["b"] = 2
    /\ next_name_id = 3

\* the number of maximal runs of commands of the given kind in v
Runs(v, kind) ==
    Cardinality({k \in 1..Len(v) :
        InRun(kind, v[k]) /\ (k = 1 \/ ~InRun(kind, v[k - 1]))})

\* C9: a print_ranked pass on a buffer whose assertions, or whose
\* declarations and definitions, form two or more runs ends in a fatal error
\* and emits nothing.
C9_SplitRunsAbort ==
    (/\ pass.kind = "ranked"
     /\ \/ Runs(pass.filtered, "assert") >= 2
        \/ Runs(pass.filtered, "declare|define") >= 2)
        => pass.thrown /\ pass.lines = <<>> /\ status = "aborted"

\* C10: get_ranks(n) returns the values of the file in file order only when
\* the file opens and holds exactly n values, and n zeros otherwise.
C10_RankFile ==
    (res.done /\ arg.fn = "get_ranks") =>
        res.ranks =
            IF /\ arg.file.open
               /\ Len(arg.file.vals) = arg.size
               /\ \A k \in 1..Len(arg.file.vals) : arg.file.vals[k].ok
            THEN [k \in 1..arg.size |-> arg.file.vals[k].val]
            ELSE [k \in 1..arg.size |-> 0]

\* the roots of the commands of v
RootsOf(v) == [k \in 1..Len(v) |-> v[k].root]

\* no element occurs twice in s
NoDuplicate(s) == \A i, j \in 1..Len(s) : s[i] = s[j] => i = j

\* the last pass serialized and deleted every root of its buffer once, and
\* no root was emitted twice in the run or is still in the buffer
Drained ==
    /\ NoDuplicate(RootsOf(pass.emitted))
    /\ \A k \in 1..Len(commands) :
          \A j \in 1..Len(pass.emitted) : commands[k].root # pass.emitted[j].root
    /\ (pass.kind # "none" /\ ~pass.thrown) =>
          /\ IsPermutation(RootsOf(pass.order), RootsOf(pass.filtered))
          /\ IsPermutation(RootsOf(pass.deleted), RootsOf(pass.filtered))
          /\ NoDuplicate(RootsOf(pass.filtered))
          /\ Len(pass.lines) = Len(pass.filtered)

\* C11: a print pass is a one-shot destructive drain: after every pass the
\* buffer is empty, every root of the buffer at the start of the pass was
\* serialized once and deleted once, and no appended command is emitted
\* twice in a run.
C11_DestructiveDrain ==
    [][Drained' /\ (pass' # pass => commands' = <<>>)]_vars

\* C11 happens: a second pass has drained a buffer of two commands that it
\* reordered
C11_Witness ==
    /\ pass.kind = "ranked" /\ ~pass.thrown /\ commands = <<>>
    /\ Len(pass.emitted) > Len(pass.order)
    /\ Len(pass.order) >= 2
    /\ pass.order # pass.filtered

\* C12: the logic is set at most once per run: a set_logic call made after
\* an earlier set_logic call ends the run with an error and leaves the logic
\* unchanged.
C12_LogicSetOnce ==
    [][set_calls >= 1 =>
          /\ logic' = logic
          /\ set_calls' # set_calls => (status' = "aborted" /\ res'.exited)]_vars

\* C12 happens: a second set_logic call, with another name, ended the run
C12_Witness ==
    /\ arg.fn = "set_logic" /\ arg.calls = 1 /\ set_calls = 2
    /\ status = "aborted"
    /\ logic # "" /\ logic # arg.l

\* the ordering operators and their mirrors, by theory
ArithMirrors == ("<" :> ">") @@ (">" :> "<") @@ ("<=" :> ">=") @@ (">=" :> "<=")
BvMirrors ==
    ("bvslt" :> "bvsgt") @@ ("bvsgt" :> "bvslt") @@ ("bvsle" :> "bvsge")
    @@ ("bvsge" :> "bvsle") @@ ("bvult" :> "bvugt") @@ ("bvugt" :> "bvult")
    @@ ("bvule" :> "bvuge") @@ ("bvuge" :> "bvule")
FpMirrors ==
    ("fp.lt" :> "fp.gt") @@ ("fp.gt" :> "fp.lt") @@ ("fp.leq" :> "fp.geq")
    @@ ("fp.geq" :> "fp.leq")

\* the mirrors of the logic lg: the tables of the theories its name contains
MirrorTable(lg) ==
    (IF LogicFind("arith", lg) THEN ArithMirrors ELSE EmptyMap)
    @@ (IF LogicFind("bv", lg) THEN BvMirrors ELSE EmptyMap)
    @@ (IF LogicFind("fp", lg) THEN FpMirrors ELSE EmptyMap)

\* the coin of the flip_antisymm call recorded in arg
CoinOf == next_rand_int([seed |-> arg.seed, draws |-> arg.draws], 2).ret = 1

\* C20: flip_antisymm reports success exactly when scrambling is enabled, the
\* coin of the call is true and the effective operator has a mirror in the
\* table of the active logic; the node made has no children and carries the
\* mirror; with scrambling disabled it reports no change and draws nothing,
\* with scrambling enabled it draws once.
C20_FlipAntisymm ==
    (res.done /\ arg.fn = "flip_antisymm") =>
        /\ res.ret <=> /\ ~options.no_scramble
                       /\ CoinOf
                       /\ EffectiveSymbol(arg.n) \in DOMAIN MirrorTable(logic)
        /\ res.ret =>
              /\ res.made /\ ~res.exited
              /\ res.out_n.children = <<>>
              /\ res.out_n.symbol = MirrorTable(logic)[EffectiveSymbol(arg.n)]
        /\ options.no_scramble =>
              ~res.ret /\ draws = arg.draws /\ seed = arg.seed
        /\ ~options.no_scramble => draws = arg.draws + 1

\* C20 happens: a qualified bvuge was mirrored under a logic with bit-vectors
C20_Witness ==
    /\ res.done /\ arg.fn = "flip_antisymm" /\ res.ret
    /\ arg.n.symbol = "as" /\ arg.n.children[1].symbol = "bvuge"
    /\ res.out_n.symbol = "bvule" /\ res.out_n.children = <<>>
    /\ logic = "QF_ABVFPLRA" /\ draws = arg.draws + 1

\* the text s begins with p, ends with p
StartsWith(s, p) == Len(s) >= Len(p) /\ SubSeq(s, 1, Len(p)) = p
EndsWith(s, p) == Len(s) >= Len(p) /\ SubSeq(s, Len(s) - Len(p) + 1, Len(s)) = p

\* the assertions written so far, in the order written
EmittedAssertions ==
    LET Test(line) == StartsWith(line, "(assert") IN SelectSeq(out, Test)

\* C13: with unsat-core generation enabled every emitted assertion is wrapped
\* in a named annotation whose name comes from one counter: over all passes
\* of a run the k-th assertion emitted carries the name smtcomp<k>, so the
\* names are pairwise distinct and numbered 1, 2, 3, ... in emission order.
C13_AnnotationNames ==
    options.gen_ucore =>
        /\ \A k \in 1..Len(EmittedAssertions) :
              /\ StartsWith(EmittedAssertions[k], "(assert (! ")
              /\ EndsWith(EmittedAssertions[k],
                          " :named smtcomp" \o ToString(k) \o "))")
        /\ annot_n = Len(EmittedAssertions) + 1

\* C13 happens: a second pass emitted the second assertion of the run
C13_Witness ==
    /\ options.gen_ucore /\ pass.kind = "ranked"
    /\ Len(EmittedAssertions) = 2
    /\ Len(pass.emitted) > Len(pass.order)
    /\ \E k \in 1..Len(pass.lines) : EndsWith(pass.lines[k], " :named smtcomp2))")

\* the indices of permuted_name_ids added by the step
NewIndices == Len(permuted_name_ids)..(Len(permuted_name_ids') - 1)

\* C14: the permutation table is cumulative: a print_scrambled pass keeps the
\* value of every index below the size the table had at the start of the
\* pass, permutes the indices added since among themselves only, and index 0
\* always maps to 0.
C14_PermutationCumulative ==
    [][/\ Len(permuted_name_ids') >= Len(permuted_name_ids)
       /\ \A k \in 1..Len(permuted_name_ids) :
             permuted_name_ids'[k] = permuted_name_ids[k]
       /\ {permuted_name_ids'[k + 1] : k \in NewIndices} = NewIndices
       /\ Len(permuted_name_ids') > 0 => permuted_name_ids'[1] = 0]_vars

\* C14 happens: a later pass exchanged two new identifiers behind a kept one
C14_Witness ==
    /\ pass.kind = "scrambled" /\ ~options.no_scramble
    /\ Len(pass.emitted) > Len(pass.order)
    /\ permuted_name_ids = <<0, 1, 3, 2>>

RECURSIVE FirstNameRef(_)
RECURSIVE FirstNameRefFrom(_, _)
\* the symbol of the first name reference met in a depth-first walk of the
\* children of n from child i (1-based) on, "" when there is none
FirstNameRefFrom(n, i) ==
    IF i > Len(n.children) THEN ""
    ELSE IF IsNameRef(n.children[i]) THEN n.children[i].symbol
    ELSE IF FirstNameRef(n.children[i]) # "" THEN FirstNameRef(n.children[i])
    ELSE FirstNameRefFrom(n, i + 1)

\* the symbol of the first name-reference descendant of n, depth first
FirstNameRef(n) == FirstNameRefFrom(n, 1)

\* C15: find_var returns the sorted-registry identifier of the first name
\* reference met in a depth-first walk of the whole subtree, and 0 only when
\* the subtree holds no name reference.
C15_FindVar ==
    (res.done /\ arg.fn = "find_var") =>
        res.ret = IF FirstNameRef(arg.n) = "" THEN 0
                  ELSE arg.ids[unquote(FirstNameRef(arg.n))]

\* the tag sort_declarations gives the command cmd of its input
TagOf(cmd) == find_var(cmd, arg.ids).ret

\* C16: the declaration sort is stable: after sort_declarations on a run
\* [start, end) the run is a permutation of the original run in ascending
\* tag order, commands with equal tags keep their original relative order
\* (the root at position k of the input is the k-th root), and the buffer is
\* unchanged outside the run.
C16_SortStable ==
    (res.done /\ arg.fn = "sort_declarations") =>
        /\ IsPermutation(Window(res.v, arg.start, arg.end),
                         Window(arg.v, arg.start, arg.end))
        /\ SameOutside(res.v, arg.v, arg.start, arg.end)
        /\ \A k, l \in (arg.start + 1)..arg.end :
              k < l =>
                 /\ TagOf(res.v[k]) <= TagOf(res.v[l])
                 /\ TagOf(res.v[k]) = TagOf(res.v[l]) => res.v[k].root < res.v[l].root

RECURSIVE NamesIn(_)
RECURSIVE NamesFrom(_, _)
\* the unquoted names of the name references below n from child i (1-based)
\* on, in the order in which they are read
NamesFrom(n, i) ==
    IF i > Len(n.children) THEN <<>>
    ELSE (IF IsNameRef(n.children[i]) THEN <<unquote(n.children[i].symbol)>>
          ELSE <<>>)
         \o NamesIn(n.children[i]) \o NamesFrom(n, i + 1)

\* the names of the name references below n in reading order
NamesIn(n) == NamesFrom(n, 1)

RECURSIVE NamesOfAssertions(_, _)
\* the names read in the assertions of the buffer v from index i (1-based) on
NamesOfAssertions(v, i) ==
    IF i > Len(v) THEN <<>>
    ELSE (IF v[i].symbol = "assert" THEN NamesIn(v[i]) ELSE <<>>)
         \o NamesOfAssertions(v, i + 1)

\* the position of the first occurrence of x in s
FirstAt(s, x) == CHOOSE k \in 1..Len(s) : s[k] = x /\ \A j \in 1..(k - 1) : s[j] # x

\* the number of distinct names read before the first occurrence of x in s
RankOfFirst(s, x) == Cardinality({s[j] : j \in 1..FirstAt(s, x)})

\* C17: after the numbering step of print_ranked every name reference of an
\* assertion of the buffer is registered in the sorted registry, and the
\* identifiers follow the order in which the names first appear when the
\* assertions are read left to right (the registry being empty before).
C17_FirstOccurrence ==
    (res.done /\ arg.fn = "assign_num") =>
        \A k \in 1..Len(NamesOfAssertions(arg.v, 1)) :
            LET x == NamesOfAssertions(arg.v, 1)[k]
            IN  /\ x \in DOMAIN res.reg.ids
                /\ res.reg.ids[x] = RankOfFirst(NamesOfAssertions(arg.v, 1), x)

RECURSIVE NamedIn(_)
\* the names attached by the annotation wrappers of the subtree of n that
\* carry a :named attribute
NamedIn(n) ==
    (IF n.symbol = "!"
     THEN {n.children[j].children[1].symbol :
              j \in {i \in 2..Len(n.children) :
                        /\ n.children[i].symbol = ":named"
                        /\ n.children[i].children # <<>>}}
     ELSE {})
    \cup UNION {NamedIn(n.children[j]) : j \in 1..Len(n.children)}

\* C18: get_named_annot returns the empty string only when no annotation
\* wrapper with a :named attribute exists anywhere in the subtree of root;
\* when one exists, at any position, it returns the name of one of them.
C18_NamedAnnotComplete ==
    (res.done /\ arg.fn = "get_named_annot") =>
        IF NamedIn(arg.n) = {} THEN res.name = "" ELSE res.name \in NamedIn(arg.n)

\* (s * a + c) mod 2^48: the low six bytes of the 64-bit result
Lcg48(s) == [k \in 1..8 |-> IF k <= 6 THEN Add64(Mul64(s, a), c)[k] ELSE 0]

\* C19: the generator is a 48-bit LCG: a next_rand_int(bound) call with
\* bound > 0 replaces the state by (state * 25214903917 + 11) mod 2^48, so
\* the state is below 2^48 after the call, and returns (state >> 16) mod
\* bound, a value in [0, bound).
C19_Lcg48 ==
    (res.done /\ arg.fn = "next_rand_int") =>
        /\ res.seed = Lcg48(res.prev)
        /\ res.seed[7] = 0 /\ res.seed[8] = 0
        /\ res.ret = ModHigh(Lcg48(res.prev), 6, arg.bound, 0)
        /\ res.ret \in 0..(arg.bound - 1)

\* C22: with scrambling enabled, shuffle_list on an empty window (end = start)
\* returns having swapped nothing, accessed no element and drawn nothing from
\* the generator, as it does on a window of one element.
C22_EmptyWindow ==
    (res.done /\ arg.fn = "shuffle_list" /\ ~arg.no_scramble
        /\ arg.end - arg.start <= 1) =>
        /\ res.returned /\ ~res.trapped /\ ~res.accessed
        /\ res.v = arg.v
        /\ res.draws = 0 /\ res.seed = arg.seed

\* the unquoted names declared by the declare-fun commands of v
DeclaredIn(v) ==
    {unquote(v[k].children[1].symbol) :
        k \in {j \in 1..Len(v) : v[j].symbol = "declare-fun"}}

\* the declared names that an assertion written so far refers to
ReferencedNames ==
    {x \in DeclaredIn(pass.emitted) :
        \E k \in 1..Len(NamesOfAssertions(pass.emitted, 1)) :
            NamesOfAssertions(pass.emitted, 1)[k] = x}

\* the line holds the name x, plain or quoted, as a token of its own
Mentions(line, x) ==
    \E pre \in {" ", "("}, post \in {" ", ")"}, w \in {x, "|" \o x \o "|"} :
        Contains(line, pre \o w \o post)

\* after a pass every referenced name has a nonzero identifier and no line
\* of the pass holds its original spelling
UniformlyRenamed ==
    (pass.kind = "ranked" /\ ~pass.thrown /\ ~options.no_scramble) =>
        \A x \in ReferencedNames :
            /\ x \in DOMAIN name_ids_sorted /\ name_ids_sorted[x] # 0
            /\ \A k \in 1..Len(pass.lines) : ~Mentions(pass.lines[k], x)

\* a nonzero identifier of the sorted registry is never changed
IdentifiersKept ==
    \A x \in DOMAIN name_ids_sorted :
        name_ids_sorted[x] # 0 =>
            x \in DOMAIN name_ids_sorted' /\ name_ids_sorted'[x] = name_ids_sorted[x]

\* C21: over any sequence of print_ranked passes with scrambling enabled, from
\* the first pass whose assertions refer to a declared name on, every
\* occurrence of that name is written as x<id> with one fixed nonzero id, also
\* when an earlier pass wrote the name (in its declaration) while no
\* assertion referred to it.
C21_RenamingConsistent == []UniformlyRenamed /\ [][IdentifiersKept]_vars

====
